---- MODULE Spec2Model ----
(***************************************************************************)
(* A model of internal/client/client.go: the Source enumeration, the       *)
(* Runtime client record and the RuntimeIndex registry.                    *)
(*                                                                         *)
(* Runtime values live on a heap (Go pointers, *Runtime): the index maps   *)
(* an address to a heap reference, and the caller keeps its references, so *)
(* a record can be changed after it was added and still exists after it    *)
(* was deleted from the index.                                             *)
(*                                                                         *)
(* Three specifications run the same operations:                           *)
(*   Spec         the index with up to MaxRuntimes records at valid        *)
(*                addresses;                                               *)
(*   SpecRecord   one record alone, with every hosts slice up to MaxLen    *)
(*                names;                                                   *)
(*   SpecAnyAddr  one record built for any netip.Addr, the zero Addr       *)
(*                included, and added to the index.                        *)
(***************************************************************************)
EXTENDS Integers, Sequences, FiniteSets, TLC

(* ------------------------------ bounds --------------------------------- *)

\* Number of Runtime values the caller constructs.
MaxRuntimes == 2

\* Number of valid client addresses (the zero netip.Addr is modelled as 0).
NumAddrs == 2

\* Longest hosts slice passed to SetInfo when one record is studied alone.
MaxLen == 2

(* ------------------------------ Source --------------------------------- *)

SourceWHOIS == 1
SourceARP == 2
SourceRDNS == 3
SourceDHCP == 4
SourceHostsFile == 5
SourcePersistent == 6

\* Source is a uint8; 0 and 7 stand for the values outside the enumeration.
Sources == 0..7

\* Source.String
String(cs) ==
    CASE cs = SourceWHOIS -> "WHOIS"
      [] cs = SourceARP -> "ARP"
      [] cs = SourceRDNS -> "rDNS"
      [] cs = SourceDHCP -> "DHCP"
      [] cs = SourceHostsFile -> "etc/hosts"
      [] OTHER -> ""

(* --------------------------- Go values --------------------------------- *)

\* A []string: a nil slice and an empty non-nil slice both have length 0 and
\* differ only in the nil flag.
NilSlice == [nil |-> TRUE, elems |-> <<>>]

Slice(s) == [nil |-> FALSE, elems |-> s]

len(h) == Len(h.elems)

\* Host names, the empty string among them.
Names == {"", "a"}

RECURSIVE SeqsUpTo(_)
SeqsUpTo(n) ==
    IF n = 0 THEN {<<>>}
    ELSE LET shorter == SeqsUpTo(n - 1)
         IN  shorter \cup {Append(s, x) : s \in {t \in shorter : Len(t) = n - 1}, x \in Names}

\* The hosts arguments of SetInfo: nil, and every slice up to n names.
HostsArgs(n) == {NilSlice} \cup {Slice(s) : s \in SeqsUpTo(n)}

\* *whois.Info: 0 is the nil pointer.
NilInfo == 0

WhoisInfos == {1}

\* netip.Addr: 0 is the zero Addr, for which IsValid reports false.
ZeroAddr == 0

Addrs == 0..NumAddrs

IsValid(ip) == ip # ZeroAddr

(* ------------------------------ state ---------------------------------- *)

VARIABLES
    heap,   \* the Runtime values constructed so far, by reference 1..Len(heap)
    index   \* RuntimeIndex.index: map[netip.Addr]*Runtime

vars == <<heap, index>>

Refs == 1..Len(heap)

(* ----------------------------- Runtime --------------------------------- *)

\* NewRuntime: the record it returns.
NewRuntimeValue(ip) ==
    [ip |-> ip, whois |-> NilInfo, arp |-> NilSlice, rdns |-> NilSlice,
     dhcp |-> NilSlice, hostsFile |-> NilSlice]

\* Info with len(slot) > 0 in place of slot != nil: a present-but-empty
\* source no longer wins.
InfoSkipsEmpty(r) ==
    LET sel ==
            CASE len(r.hostsFile) > 0 -> [cs |-> SourceHostsFile, info |-> r.hostsFile]
              [] len(r.dhcp) > 0 -> [cs |-> SourceDHCP, info |-> r.dhcp]
              [] len(r.rdns) > 0 -> [cs |-> SourceRDNS, info |-> r.rdns]
              [] len(r.arp) > 0 -> [cs |-> SourceARP, info |-> r.arp]
              [] r.whois # NilInfo -> [cs |-> SourceWHOIS, info |-> Slice(<<>>)]
              [] OTHER -> [cs |-> 0, info |-> Slice(<<>>)]
    IN  IF len(sel.info) = 0
        THEN [cs |-> sel.cs, host |-> ""]
        ELSE [cs |-> sel.cs, host |-> sel.info.elems[1]]

\* Runtime.Info
Info(r) ==
    LET sel ==
            CASE ~r.hostsFile.nil -> [cs |-> SourceHostsFile, info |-> r.hostsFile]
              [] ~r.dhcp.nil -> [cs |-> SourceDHCP, info |-> r.dhcp]
              [] ~r.rdns.nil -> [cs |-> SourceRDNS, info |-> r.rdns]
              [] ~r.arp.nil -> [cs |-> SourceARP, info |-> r.arp]
              [] r.whois # NilInfo -> [cs |-> SourceWHOIS, info |-> Slice(<<>>)]
              [] OTHER -> [cs |-> 0, info |-> Slice(<<>>)]
    IN  IF len(sel.info) = 0
        THEN [cs |-> sel.cs, host |-> ""]
        ELSE [cs |-> sel.cs, host |-> sel.info.elems[1]]

\* SetInfo without the normalisation of [""].
SetInfoValueLiteral(r, cs, hosts) ==
    CASE cs = SourceARP -> [r EXCEPT !.arp = hosts]
      [] cs = SourceRDNS -> [r EXCEPT !.rdns = hosts]
      [] cs = SourceDHCP -> [r EXCEPT !.dhcp = hosts]
      [] cs = SourceHostsFile -> [r EXCEPT !.hostsFile = hosts]
      [] OTHER -> r

\* SetInfo whose switch falls back to the hosts file for any other source.
SetInfoValueDefault(r, cs, hosts) ==
    LET h == IF len(hosts) = 1 /\ hosts.elems[1] = "" THEN Slice(<<>>) ELSE hosts
    IN  CASE cs = SourceARP -> [r EXCEPT !.arp = h]
          [] cs = SourceRDNS -> [r EXCEPT !.rdns = h]
          [] cs = SourceDHCP -> [r EXCEPT !.dhcp = h]
          [] OTHER -> [r EXCEPT !.hostsFile = h]

\* Runtime.SetInfo: the record after the call.
SetInfoValue(r, cs, hosts) ==
    LET h == IF len(hosts) = 1 /\ hosts.elems[1] = "" THEN Slice(<<>>) ELSE hosts
    IN  CASE cs = SourceARP -> [r EXCEPT !.arp = h]
          [] cs = SourceRDNS -> [r EXCEPT !.rdns = h]
          [] cs = SourceDHCP -> [r EXCEPT !.dhcp = h]
          [] cs = SourceHostsFile -> [r EXCEPT !.hostsFile = h]
          [] OTHER -> r

\* Runtime.WHOIS
WHOIS(r) == r.whois

\* Runtime.SetWHOIS: the record after the call.
SetWHOISValue(r, info) == [r EXCEPT !.whois = info]

\* Unset that truncates the slice (slot = slot[:0]) instead of setting nil.
UnsetValueTruncates(r, cs) ==
    LET cut(h) == IF h.nil THEN NilSlice ELSE Slice(<<>>)
    IN  CASE cs = SourceWHOIS -> [r EXCEPT !.whois = NilInfo]
          [] cs = SourceARP -> [r EXCEPT !.arp = cut(r.arp)]
          [] cs = SourceRDNS -> [r EXCEPT !.rdns = cut(r.rdns)]
          [] cs = SourceDHCP -> [r EXCEPT !.dhcp = cut(r.dhcp)]
          [] cs = SourceHostsFile -> [r EXCEPT !.hostsFile = cut(r.hostsFile)]
          [] OTHER -> r

\* Runtime.Unset: the record after the call.
UnsetValue(r, cs) ==
    CASE cs = SourceWHOIS -> [r EXCEPT !.whois = NilInfo]
      [] cs = SourceARP -> [r EXCEPT !.arp = NilSlice]
      [] cs = SourceRDNS -> [r EXCEPT !.rdns = NilSlice]
      [] cs = SourceDHCP -> [r EXCEPT !.dhcp = NilSlice]
      [] cs = SourceHostsFile -> [r EXCEPT !.hostsFile = NilSlice]
      [] OTHER -> r

\* IsEmpty with len(slot) == 0 in place of slot == nil.
IsEmptyByLen(r) ==
    /\ r.whois = NilInfo
    /\ len(r.arp) = 0
    /\ len(r.rdns) = 0
    /\ len(r.dhcp) = 0
    /\ len(r.hostsFile) = 0

\* Runtime.IsEmpty
IsEmpty(r) ==
    /\ r.whois = NilInfo
    /\ r.arp.nil
    /\ r.rdns.nil
    /\ r.dhcp.nil
    /\ r.hostsFile.nil

\* Runtime.Addr
Addr(r) == r.ip

(* --------------------------- RuntimeIndex ------------------------------ *)

\* NewRuntimeIndex: the empty map.
NewRuntimeIndex == [a \in {} |-> 0]

\* RuntimeIndex.Client
Client(ip) ==
    IF ip \in DOMAIN index
    THEN [rc |-> index[ip], ok |-> TRUE]
    ELSE [rc |-> 0, ok |-> FALSE]

\* RuntimeIndex.Size
Size == Cardinality(DOMAIN index)

\* delete(m, key) of a Go map.
MapDelete(m, key) == [a \in DOMAIN m \ {key} |-> m[a]]

\* The loop of RuntimeIndex.DeleteBySrc over the keys still to visit; the
\* order of a Go map range is undefined, and every key is visited once.
RECURSIVE DeleteBySrcLoop(_, _, _, _, _)
DeleteBySrcLoop(keys, idx, hp, n, src) ==
    IF keys = {} THEN [index |-> idx, heap |-> hp, n |-> n]
    ELSE LET ip == CHOOSE a \in keys : TRUE
             rc == idx[ip]
             hp2 == [hp EXCEPT ![rc] = UnsetValue(hp[rc], src)]
         IN  IF IsEmpty(hp2[rc])
             THEN DeleteBySrcLoop(keys \ {ip}, MapDelete(idx, ip), hp2, n + 1, src)
             ELSE DeleteBySrcLoop(keys \ {ip}, idx, hp2, n, src)

\* RuntimeIndex.DeleteBySrc: the index, the heap and the count it returns.
DeleteBySrcResult(src) == DeleteBySrcLoop(DOMAIN index, index, heap, 0, src)

(* ----------------------------- actions --------------------------------- *)

Init ==
    /\ heap = <<>>
    /\ index = NewRuntimeIndex

NewRuntime(ip) ==
    /\ heap' = Append(heap, NewRuntimeValue(ip))
    /\ UNCHANGED index

SetInfo(rc, cs, hosts) ==
    /\ heap' = [heap EXCEPT ![rc] = SetInfoValue(heap[rc], cs, hosts)]
    /\ UNCHANGED index

SetWHOIS(rc, info) ==
    /\ heap' = [heap EXCEPT ![rc] = SetWHOISValue(heap[rc], info)]
    /\ UNCHANGED index

Unset(rc, cs) ==
    /\ heap' = [heap EXCEPT ![rc] = UnsetValue(heap[rc], cs)]
    /\ UNCHANGED index

\* Add that fills the absent slots of the new record from the record it
\* replaces.
AddMerges(rc) ==
    LET ip == Addr(heap[rc])
        new == heap[rc]
        old == IF ip \in DOMAIN index THEN heap[index[ip]] ELSE new
        pick(n, o) == IF n.nil THEN o ELSE n
    IN  /\ index' = [a \in DOMAIN index \cup {ip} |-> IF a = ip THEN rc ELSE index[a]]
        /\ heap' = [heap EXCEPT ![rc] =
                        [ip |-> new.ip,
                         whois |-> IF new.whois = NilInfo THEN old.whois ELSE new.whois,
                         arp |-> pick(new.arp, old.arp),
                         rdns |-> pick(new.rdns, old.rdns),
                         dhcp |-> pick(new.dhcp, old.dhcp),
                         hostsFile |-> pick(new.hostsFile, old.hostsFile)]]

\* Add that stores the record under a normalised key, which maps two
\* addresses to one.
AddNormalizedKey(rc) ==
    /\ LET ip == IF Addr(heap[rc]) = ZeroAddr THEN ZeroAddr ELSE 1
       IN  index' = [a \in DOMAIN index \cup {ip} |-> IF a = ip THEN rc ELSE index[a]]
    /\ UNCHANGED heap

Add(rc) ==
    /\ LET ip == Addr(heap[rc])
       IN  index' = [a \in DOMAIN index \cup {ip} |-> IF a = ip THEN rc ELSE index[a]]
    /\ UNCHANGED heap

Delete(ip) ==
    /\ index' = MapDelete(index, ip)
    /\ UNCHANGED heap

DeleteBySrc(src) ==
    LET res == DeleteBySrcResult(src)
    IN  /\ index' = res.index
        /\ heap' = res.heap
    
(* -------------------- the registry and its records --------------------- *)

\* The caller keeps the contract of NewRuntime here: ip is a valid address.
ValidAddrs == {ip \in Addrs : IsValid(ip)}

UsedAddrs == {Addr(heap[rc]) : rc \in Refs}

\* Addresses are opaque comparable values: clients are numbered in the order
\* in which they are first observed, so a new record has an address seen
\* before or the least address not seen yet.
ObservedNext(ip) == \A b \in ValidAddrs : b < ip => b \in UsedAddrs

\* A present-but-empty and a present-with-values hosts slice.
IndexHosts == {Slice(<<>>), Slice(<<"a">>)}

DoNewRuntime ==
    /\ Len(heap) < MaxRuntimes
    /\ \E ip \in ValidAddrs : ObservedNext(ip) /\ NewRuntime(ip)

DoSetInfo == \E rc \in Refs, cs \in Sources, hosts \in IndexHosts : SetInfo(rc, cs, hosts)

DoSetWHOIS == \E rc \in Refs, info \in WhoisInfos : SetWHOIS(rc, info)

DoUnset == \E rc \in Refs, cs \in Sources : Unset(rc, cs)

DoAdd == \E rc \in Refs : Add(rc)

DoDelete == \E ip \in ValidAddrs : Delete(ip)

DoDeleteBySrc == \E src \in Sources : DeleteBySrc(src)

Next ==
    \/ DoNewRuntime
    \/ DoSetInfo
    \/ DoSetWHOIS
    \/ DoUnset
    \/ DoAdd
    \/ DoDelete
    \/ DoDeleteBySrc

Spec == Init /\ [][Next]_vars

(* ------------------------- one record alone ---------------------------- *)

\* One record, fed with every hosts slice up to MaxLen names, nil included.
RecordHosts == HostsArgs(MaxLen)

RecNewRuntime == Len(heap) < 1 /\ \E ip \in ValidAddrs : ObservedNext(ip) /\ NewRuntime(ip)

RecSetInfo == \E rc \in Refs, cs \in Sources, hosts \in RecordHosts : SetInfo(rc, cs, hosts)

RecSetWHOIS == \E rc \in Refs, info \in WhoisInfos : SetWHOIS(rc, info)

RecUnset == \E rc \in Refs, cs \in Sources : Unset(rc, cs)

NextRecord ==
    \/ RecNewRuntime
    \/ RecSetInfo
    \/ RecSetWHOIS
    \/ RecUnset

SpecRecord == Init /\ [][NextRecord]_vars

(* ---------------------- construction for any address ------------------- *)

\* NewRuntime does not look at ip: the caller may pass any netip.Addr, the
\* zero Addr included, and add the record to the index.
AnyNewRuntime == Len(heap) < 1 /\ \E ip \in Addrs : NewRuntime(ip)

AnySetInfo == \E rc \in Refs, cs \in Sources, hosts \in IndexHosts : SetInfo(rc, cs, hosts)

AnySetWHOIS == \E rc \in Refs, info \in WhoisInfos : SetWHOIS(rc, info)

AnyAdd == \E rc \in Refs : Add(rc)

AnyDelete == \E ip \in Addrs : Delete(ip)

NextAnyAddr ==
    \/ AnyNewRuntime
    \/ AnySetInfo
    \/ AnySetWHOIS
    \/ AnyAdd
    \/ AnyDelete

SpecAnyAddr == Init /\ [][NextAnyAddr]_vars

(* ------------------- vocabulary of the statements ---------------------- *)

\* The four sources that carry a list of host names, and the five that have
\* a slot in a record.
ListSources == {SourceARP, SourceRDNS, SourceDHCP, SourceHostsFile}

SlotSources == ListSources \cup {SourceWHOIS}

\* The priority order of resolution, highest first.
Priority == <<SourceHostsFile, SourceDHCP, SourceRDNS, SourceARP, SourceWHOIS>>

\* The slot of a list-valued source.
Slot(r, cs) ==
    CASE cs = SourceARP -> r.arp
      [] cs = SourceRDNS -> r.rdns
      [] cs = SourceDHCP -> r.dhcp
      [] cs = SourceHostsFile -> r.hostsFile

\* The slot of source cs is non-absent.
Present(r, cs) ==
    IF cs = SourceWHOIS THEN r.whois # NilInfo
    ELSE cs \in ListSources /\ ~Slot(r, cs).nil

\* Slot cs is present-but-empty: non-absent, with zero names.
PresentButEmpty(r, cs) == cs \in ListSources /\ Slot(r, cs) = Slice(<<>>)

\* r with the slot of cs blanked.
Masked(r, cs) ==
    CASE cs = SourceWHOIS -> [r EXCEPT !.whois = NilInfo]
      [] cs = SourceARP -> [r EXCEPT !.arp = NilSlice]
      [] cs = SourceRDNS -> [r EXCEPT !.rdns = NilSlice]
      [] cs = SourceDHCP -> [r EXCEPT !.dhcp = NilSlice]
      [] cs = SourceHostsFile -> [r EXCEPT !.hostsFile = NilSlice]
      [] OTHER -> r

\* Every slot but that of cs, and the address, are the same in r1 and r2.
SameButSlot(r1, r2, cs) == Masked(r1, cs) = Masked(r2, cs)

\* cs is the only source r has information from.
OnlyFrom(r, cs) == Present(r, cs) /\ \A t \in SlotSources \ {cs} : ~Present(r, t)

AllAbsent(r) == \A t \in SlotSources : ~Present(r, t)

\* The highest-priority non-absent source of r, 0 when there is none.
Winner(r) ==
    IF AllAbsent(r) THEN 0
    ELSE Priority[CHOOSE i \in 1..Len(Priority) :
                      /\ Present(r, Priority[i])
                      /\ \A j \in 1..(i - 1) : ~Present(r, Priority[j])]

\* The first name of the winning source, "" when it has none.
WinnerName(r) ==
    LET w == Winner(r)
    IN  IF w \in ListSources /\ Len(Slot(r, w).elems) > 0 THEN Slot(r, w).elems[1] ELSE ""

(* ----------------------------- statements ------------------------------ *)

\* C1: for every combination of absent, present-but-empty and
\* present-with-values slots, Info returns the highest-priority non-absent
\* source in the order hosts file > DHCP > reverse DNS > ARP > WHOIS with the
\* first name of its sequence, the empty string when the winning slot is
\* present-but-empty or the winner is WHOIS, and the zero source with the
\* empty string exactly when every slot is absent.
C1_ResolvePriority ==
    \A rc \in Refs :
        LET r == heap[rc]
        IN  /\ Info(r) = [cs |-> Winner(r), host |-> WinnerName(r)]
            /\ (Info(r).cs = 0) <=> AllAbsent(r)
            /\ Info(r).cs = SourceWHOIS => Info(r).host = ""
            /\ AllAbsent(r) => Info(r).host = ""

\* A present-but-empty hosts-file slot wins over a DHCP slot with two names.
C1_Witness ==
    \E rc \in Refs :
        /\ PresentButEmpty(heap[rc], SourceHostsFile)
        /\ len(heap[rc].dhcp) = 2
        /\ heap[rc].dhcp.elems[1] = "a"
        /\ Info(heap[rc]) = [cs |-> SourceHostsFile, host |-> ""]

\* C4: for a list-valued source and any prior state of the record, SetInfo
\* with [""] leaves the record as SetInfo with [] does: the slot is
\* present-but-empty, never a one-element sequence holding the empty string,
\* so the record is not empty and Info reports the source with the empty
\* name when it is the winner.
C4_EmptyStringNormalized ==
    \A rc \in Refs, cs \in ListSources :
        LET set == SetInfoValue(heap[rc], cs, Slice(<<"">>))
        IN  /\ set = SetInfoValue(heap[rc], cs, Slice(<<>>))
            /\ PresentButEmpty(set, cs)
            /\ Slot(set, cs) # Slice(<<"">>)
            /\ ~IsEmpty(set)
            /\ Winner(set) = cs => Info(set) = [cs |-> cs, host |-> ""]

\* ARP is present-but-empty and is the only source, so it is the winner.
C4_Witness ==
    \E rc \in Refs :
        /\ OnlyFrom(heap[rc], SourceARP)
        /\ PresentButEmpty(heap[rc], SourceARP)
        /\ ~IsEmpty(heap[rc])
        /\ Info(heap[rc]) = [cs |-> SourceARP, host |-> ""]

\* C5: for any source S, Unset(S) leaves slot S absent and every other slot
\* unchanged, and SetInfo(S, names) followed by Unset(S) leaves the record as
\* Unset(S) alone does, so the record is empty afterwards when S was its only
\* non-absent slot; IsEmpty is true iff the WHOIS slot and the four
\* list-valued slots are absent, so a present-but-empty slot makes the
\* record non-empty.
C5_ClearRestoresAbsence ==
    \A rc \in Refs :
        LET r == heap[rc]
        IN  /\ \A cs \in Sources :
                   LET cleared == UnsetValue(r, cs)
                   IN  /\ ~Present(cleared, cs)
                       /\ SameButSlot(cleared, r, cs)
                       /\ (\E t \in SlotSources : OnlyFrom(r, t) /\ t = cs) => IsEmpty(cleared)
                       /\ \A hosts \in RecordHosts :
                              UnsetValue(SetInfoValue(r, cs, hosts), cs) = cleared
            /\ IsEmpty(r) <=> AllAbsent(r)
            /\ (\E cs \in ListSources : PresentButEmpty(r, cs)) => ~IsEmpty(r)

\* Reverse DNS is the only non-absent slot and it is present-but-empty: the
\* record is not empty, and Unset(rDNS) empties it.
C5_Witness ==
    \E rc \in Refs :
        /\ OnlyFrom(heap[rc], SourceRDNS)
        /\ PresentButEmpty(heap[rc], SourceRDNS)
        /\ ~IsEmpty(heap[rc])
        /\ IsEmpty(UnsetValue(heap[rc], SourceRDNS))

\* C7: SetInfo with WHOIS, persistent or a value outside the enumeration,
\* and Unset with persistent or a value outside the enumeration, leave every
\* slot and the address of the record unchanged; SetInfo on a list-valued
\* source changes only the slot of that source.
C7_UnsupportedSourceNoOp ==
    \A rc \in Refs :
        /\ \A cs \in Sources \ ListSources, hosts \in RecordHosts :
               SetInfoValue(heap[rc], cs, hosts) = heap[rc]
        /\ \A cs \in Sources \ SlotSources :
               UnsetValue(heap[rc], cs) = heap[rc]
        /\ \A cs \in ListSources, hosts \in RecordHosts :
               SameButSlot(SetInfoValue(heap[rc], cs, hosts), heap[rc], cs)

\* A record with all five slots holding data, where a write to a wrong slot
\* would show.
C7_Witness ==
    \E rc \in Refs :
        /\ heap[rc].whois # NilInfo
        /\ \A cs \in ListSources : len(Slot(heap[rc], cs)) > 0

\* C9: NewRuntime fails for an address that is not valid, so no record with
\* an invalid address is created or stored in the index; for a valid address
\* it returns a record with that address and all five slots absent.
C9_InvalidAddressRejected ==
    [][\A ip \in Addrs :
           NewRuntime(ip) =>
               /\ IsValid(ip)
               /\ LET r == heap'[Len(heap')]
                  IN  /\ Addr(r) = ip
                      /\ IsEmpty(r)
                      /\ Info(r) = [cs |-> 0, host |-> ""]]_vars

\* C2: DeleteBySrc(S), for S one of WHOIS, ARP, reverse DNS, DHCP and hosts
\* file: a stored record whose only non-absent slot is S is no longer found;
\* a stored record that has S and another non-absent slot is still found,
\* with slot S absent and every other slot unchanged, and is not counted (the
\* count is the number of addresses no longer found); afterwards no stored
\* record has slot S non-absent.
C2_ClearSource ==
    \A src \in SlotSources :
        LET res == DeleteBySrcResult(src)
        IN  /\ \A a \in DOMAIN index :
                   LET rc == index[a]
                       r == heap[rc]
                   IN  /\ OnlyFrom(r, src) => a \notin DOMAIN res.index
                       /\ Present(r, src) /\ ~OnlyFrom(r, src) =>
                              /\ a \in DOMAIN res.index
                              /\ res.index[a] = rc
                              /\ ~Present(res.heap[rc], src)
                              /\ SameButSlot(res.heap[rc], r, src)
            /\ res.n = Cardinality(DOMAIN index \ DOMAIN res.index)
            /\ \A a \in DOMAIN res.index : ~Present(res.heap[res.index[a]], src)

\* Two stored records, one with ARP data only, one with ARP and DHCP data:
\* DeleteBySrc(ARP) returns 1 and leaves the second with DHCP data only.
C2_Witness ==
    \E r1, r2 \in Refs :
        /\ Addr(heap[r1]) # Addr(heap[r2])
        /\ Client(Addr(heap[r1])) = [rc |-> r1, ok |-> TRUE]
        /\ Client(Addr(heap[r2])) = [rc |-> r2, ok |-> TRUE]
        /\ OnlyFrom(heap[r1], SourceARP)
        /\ Present(heap[r2], SourceARP)
        /\ heap[r2].dhcp = Slice(<<"a">>)
        /\ LET res == DeleteBySrcResult(SourceARP)
           IN  /\ res.n = 1
               /\ DOMAIN res.index = {Addr(heap[r2])}
               /\ OnlyFrom(res.heap[r2], SourceDHCP)

\* C3: DeleteBySrc(S), for every source value S and every reachable index,
\* removes exactly the records that had information only from S before the
\* call, and returns the number of such records.
C3_RemovesExactlyOnlyFrom ==
    \A src \in Sources :
        LET res == DeleteBySrcResult(src)
            only == {a \in DOMAIN index : OnlyFrom(heap[index[a]], src)}
        IN  /\ DOMAIN res.index = DOMAIN index \ only
            /\ res.n = Cardinality(only)

\* C6: Add of a record whose address is already in the index replaces the
\* stored record without merging: Client returns the added record with its
\* own slots, Size is unchanged, and the records stored under other
\* addresses are unchanged.
C6_InsertReplaces ==
    [][\A rc \in Refs :
           Addr(heap[rc]) \in DOMAIN index /\ Add(rc) =>
               /\ Client(Addr(heap[rc]))' = [rc |-> rc, ok |-> TRUE]
               /\ heap'[rc] = heap[rc]
               /\ heap' = heap
               /\ Size' = Size
               /\ \A a \in DOMAIN index \ {Addr(heap[rc])} :
                      a \in DOMAIN index' /\ index'[a] = index[a]]_vars

\* Two records share an address; the one in the index lacks the ARP and the
\* WHOIS data that the other one has.
C6_Witness ==
    \E r1, r2 \in Refs :
        /\ r1 # r2
        /\ Addr(heap[r1]) = Addr(heap[r2])
        /\ Client(Addr(heap[r2])) = [rc |-> r2, ok |-> TRUE]
        /\ Present(heap[r1], SourceARP) /\ ~Present(heap[r2], SourceARP)
        /\ Present(heap[r1], SourceWHOIS) /\ ~Present(heap[r2], SourceWHOIS)
        /\ Present(heap[r2], SourceDHCP)

\* C8: an address that Client reports as found stops being found only by
\* Delete of that address or by a DeleteBySrc whose clearing empties the
\* record stored there (it has data before the clearing and none after);
\* NewRuntime, SetInfo, SetWHOIS, Unset, Add and Delete of another address
\* never remove it, also when Unset leaves the stored record empty.
C8_LiveUntilRemoved ==
    [][/\ \A a \in DOMAIN index :
              a \notin DOMAIN index' =>
                  \/ Delete(a)
                  \/ \E src \in Sources :
                         /\ ~IsEmpty(heap[index[a]])
                         /\ IsEmpty(UnsetValue(heap[index[a]], src))
                         /\ DeleteBySrc(src)
       /\ DOMAIN index \ DOMAIN index' # {} =>
              /\ \A ip \in Addrs : ~NewRuntime(ip)
              /\ \A rc \in Refs, cs \in Sources, hosts \in IndexHosts : ~SetInfo(rc, cs, hosts)
              /\ \A rc \in Refs, info \in WhoisInfos : ~SetWHOIS(rc, info)
              /\ \A rc \in Refs, cs \in Sources : ~Unset(rc, cs)
              /\ \A rc \in Refs : ~Add(rc)
              /\ \A ip \in Addrs \ (DOMAIN index \ DOMAIN index') : ~Delete(ip)]_vars

\* C10: every record that Client returns for an address has that address,
\* no operation changes the address of a record, Size is the number of
\* addresses that Client reports as found, and Delete of an address that is
\* not stored leaves the index unchanged.
C10_KeyAddressConsistency ==
    [][/\ \A a \in DOMAIN index' : Addr(heap'[index'[a]]) = a
       /\ \A a \in Addrs : Client(a)'.ok => Addr(heap'[Client(a)'.rc]) = a
       /\ \A rc \in Refs : Addr(heap'[rc]) = Addr(heap[rc])
       /\ Size' = Cardinality({a \in Addrs : Client(a)'.ok})
       /\ \A a \in Addrs \ DOMAIN index : MapDelete(index, a) = index]_vars

\* Two records stored under their two addresses, both with data.
C10_Witness ==
    /\ Size = 2
    /\ \A a \in DOMAIN index : ~IsEmpty(heap[index[a]]) /\ Addr(heap[index[a]]) = a
    /\ \E a \in DOMAIN index : Info(heap[index[a]]) = [cs |-> SourceDHCP, host |-> "a"]

====
